---------------------------- MODULE Spec2Model ----------------------------
(***************************************************************************)
(* The Cipher Codec (src/unnamed/part_000): encrypt and decrypt over         *)
(* AES-256-CBC with a process-wide key read from the environment.            *)
(*                                                                           *)
(* JavaScript strings are sequences of UTF-16 code units (numbers), Buffers  *)
(* are sequences of bytes (0..255).  The conversions between them (UTF-8,    *)
(* hexadecimal, String.prototype.split) are modelled by what Node does.      *)
(* The AES block transformation itself belongs to the crypto library and is  *)
(* modelled as a key-indexed permutation of 16-byte blocks (BlockEncrypt,    *)
(* BlockDecrypt); the CBC chaining, the PKCS#7 padding and the checks of     *)
(* createCipheriv / update / final around it follow OpenSSL's EVP layer.     *)
(***************************************************************************)
EXTENDS Integers, Sequences, FiniteSets, TLC

(***************************************************************************)
(* Bounds of the model.                                                      *)
(***************************************************************************)
\* Generated plaintexts have at most this many UTF-16 code units.
MaxPlainLen == 2
\* Calls of one process that may be in flight at once (SpecConc).
MaxCalls == 2

(***************************************************************************)
(* Constants of the algorithm named at line 4 ('aes-256-cbc').               *)
(***************************************************************************)
\* AES block length, and so the IV length, in bytes.
BlockSize == 16
\* AES-256 key length in bytes.
KeySize == 32

(***************************************************************************)
(* Bytes and bit operations.                                                 *)
(***************************************************************************)
RECURSIVE XorBits(_, _, _)
XorBits(a, b, n) ==
    IF n = 0 THEN 0
    ELSE (((a % 2) + (b % 2)) % 2) + 2 * XorBits(a \div 2, b \div 2, n - 1)

XorNibble == [a \in 0..15 |-> [b \in 0..15 |-> XorBits(a, b, 4)]]

\* a ^ b on bytes
Xor(a, b) == (16 * XorNibble[a \div 16][b \div 16]) + XorNibble[a % 16][b % 16]

XorBlock(x, y) == [i \in 1..Len(x) |-> Xor(x[i], y[i])]

Pow2(n) == CASE n = 0 -> 1 [] n = 1 -> 2 [] n = 2 -> 4 [] n = 3 -> 8
             [] n = 4 -> 16 [] n = 5 -> 32 [] n = 6 -> 64 [] n = 7 -> 128

Take(s, n) == SubSeq(s, 1, n)
Drop(s, n) == SubSeq(s, n + 1, Len(s))

(***************************************************************************)
(* Characters used by the wire format.                                       *)
(***************************************************************************)
Colon == <<58>>
HexDigits == <<48, 49, 50, 51, 52, 53, 54, 55, 56, 57, 97, 98, 99, 100, 101, 102>>

\* buffer.toString('hex'): two lowercase digits per byte
HexEncode(b) ==
    [i \in 1..(2 * Len(b)) |->
        IF i % 2 = 1 THEN HexDigits[(b[(i + 1) \div 2] \div 16) + 1]
        ELSE HexDigits[(b[i \div 2] % 16) + 1]]

\* value of a hex digit (either case), -1 for any other code unit
Unhex(c) ==
    IF c >= 48 /\ c <= 57 THEN c - 48
    ELSE IF c >= 97 /\ c <= 102 THEN c - 87
    ELSE IF c >= 65 /\ c <= 70 THEN c - 55
    ELSE -1

Min(S) == CHOOSE m \in S : \A n \in S : m <= n

\* Buffer.from(s, 'hex'): decodes pairs of digits and stops at the first pair
\* that is not two hex digits; an odd trailing character is dropped.
HexDecode(s) ==
    LET pairs == Len(s) \div 2
        bad == {k \in 1..pairs :
                   Unhex(s[(2 * k) - 1]) < 0 \/ Unhex(s[2 * k]) < 0}
        n == IF bad = {} THEN pairs ELSE Min(bad) - 1
    IN  [k \in 1..n |-> (16 * Unhex(s[(2 * k) - 1])) + Unhex(s[2 * k])]

\* text.split(':'): the fields between the delimiters, at least one
Split(s) ==
    LET at == {i \in 1..Len(s) : s[i] = Colon[1]}
        \* the position of the k-th delimiter; 0 and Len(s) + 1 bound the text
        pos(k) == IF k = 0 THEN 0
                  ELSE IF k > Cardinality(at) THEN Len(s) + 1
                  ELSE CHOOSE p \in at : Cardinality({q \in at : q < p}) = k - 1
    IN  [k \in 1..(Cardinality(at) + 1) |->
            SubSeq(s, pos(k - 1) + 1, pos(k) - 1)]

(***************************************************************************)
(* UTF-8, as Buffer.from(string) / cipher.update(string) encode and as       *)
(* buffer.toString() decodes.                                                *)
(***************************************************************************)
IsHighSurrogate(c) == c >= 55296 /\ c <= 56319
IsLowSurrogate(c) == c >= 56320 /\ c <= 57343
Replacement == 65533

EncodeCodePoint(cp) ==
    IF cp < 128 THEN <<cp>>
    ELSE IF cp < 2048 THEN <<192 + (cp \div 64), 128 + (cp % 64)>>
    ELSE IF cp < 65536
         THEN <<224 + (cp \div 4096), 128 + ((cp \div 64) % 64), 128 + (cp % 64)>>
    ELSE <<240 + (cp \div 262144), 128 + ((cp \div 4096) % 64),
           128 + ((cp \div 64) % 64), 128 + (cp % 64)>>

\* A surrogate pair is one code point; an unpaired surrogate is written as
\* U+FFFD.
RECURSIVE Utf8Encode(_)
Utf8Encode(s) ==
    IF s = <<>> THEN <<>>
    ELSE IF IsHighSurrogate(s[1]) /\ Len(s) >= 2 /\ IsLowSurrogate(s[2])
         THEN EncodeCodePoint(65536 + ((s[1] - 55296) * 1024) + (s[2] - 56320))
              \o Utf8Encode(Drop(s, 2))
    ELSE IF IsHighSurrogate(s[1]) \/ IsLowSurrogate(s[1])
         THEN EncodeCodePoint(Replacement) \o Utf8Encode(Tail(s))
    ELSE EncodeCodePoint(s[1]) \o Utf8Encode(Tail(s))

CodeUnits(cp) ==
    IF cp < 65536 THEN <<cp>>
    ELSE <<55296 + ((cp - 65536) \div 1024), 56320 + ((cp - 65536) % 1024)>>

\* The decoder's states: need more continuation bytes for the code point cp,
\* the next of which must lie in lo..hi.  A byte that cannot start or continue
\* a sequence yields U+FFFD; a byte that cannot continue is read again as a
\* first byte.
RECURSIVE Utf8DecodeFrom(_, _, _, _, _)
Utf8DecodeFrom(b, need, cp, lo, hi) ==
    IF b = <<>> THEN (IF need = 0 THEN <<>> ELSE <<Replacement>>)
    ELSE IF need = 0
    THEN LET x == b[1] IN
         IF x <= 127 THEN <<x>> \o Utf8DecodeFrom(Tail(b), 0, 0, 128, 191)
         ELSE IF x >= 194 /\ x <= 223
              THEN Utf8DecodeFrom(Tail(b), 1, x - 192, 128, 191)
         ELSE IF x >= 224 /\ x <= 239
              THEN Utf8DecodeFrom(Tail(b), 2, x - 224,
                                  IF x = 224 THEN 160 ELSE 128,
                                  IF x = 237 THEN 159 ELSE 191)
         ELSE IF x >= 240 /\ x <= 244
              THEN Utf8DecodeFrom(Tail(b), 3, x - 240,
                                  IF x = 240 THEN 144 ELSE 128,
                                  IF x = 244 THEN 143 ELSE 191)
         ELSE <<Replacement>> \o Utf8DecodeFrom(Tail(b), 0, 0, 128, 191)
    ELSE IF b[1] < lo \/ b[1] > hi
         THEN <<Replacement>> \o Utf8DecodeFrom(b, 0, 0, 128, 191)
    ELSE IF need = 1
         THEN CodeUnits((cp * 64) + (b[1] - 128))
              \o Utf8DecodeFrom(Tail(b), 0, 0, 128, 191)
    ELSE Utf8DecodeFrom(Tail(b), need - 1, (cp * 64) + (b[1] - 128), 128, 191)

Utf8Decode(b) == Utf8DecodeFrom(b, 0, 0, 128, 191)

(***************************************************************************)
(* The block transformation.  AES-256 is a permutation of the 16-byte       *)
(* blocks for each 32-byte key, in which every output bit depends on every  *)
(* input bit and on the key, in both directions.  Its stand-in here is a    *)
(* Feistel network of four rounds over the two halves of the block, each    *)
(* round keyed by eight bytes of the key; BlockDecrypt is its inverse.       *)
(***************************************************************************)
\* The substitution v |-> (45^v mod 257) mod 256, a permutation of the bytes.
RECURSIVE PowMod(_, _, _)
PowMod(base, e, m) ==
    IF e = 0 THEN 1
    ELSE LET h == PowMod(base, e \div 2, m)
         IN  IF e % 2 = 0 THEN (h * h) % m ELSE (((h * h) % m) * base) % m

SBoxTable == [v \in 1..256 |-> PowMod(45, v - 1, 257) % 256]

SBox(v) == SBoxTable[v + 1]

HalfBlock == BlockSize \div 2
Rounds == KeySize \div HalfBlock
RoundKey(key, r) == SubSeq(key, ((r - 1) * HalfBlock) + 1, r * HalfBlock)

\* The round function: the half block mixed with the round key in a chain
\* upwards, then a chain downwards, so that every byte of the result depends
\* on every byte of the half block.
RECURSIVE ChainUp(_, _, _, _)
ChainUp(half, rk, i, prev) ==
    IF i > Len(half) THEN <<>>
    ELSE LET v == SBox((Xor(half[i], rk[i]) + prev) % 256)
         IN  <<v>> \o ChainUp(half, rk, i + 1, v)

RECURSIVE ChainDown(_, _, _)
ChainDown(up, i, next) ==
    IF i < 1 THEN <<>>
    ELSE LET v == SBox((up[i] + next) % 256)
         IN  ChainDown(up, i - 1, v) \o <<v>>

RoundFunction(half, rk) == ChainDown(ChainUp(half, rk, 1, 0), Len(half), 0)

RECURSIVE Feistel(_, _, _, _)
Feistel(left, right, key, r) ==
    IF r > Rounds THEN left \o right
    ELSE Feistel(right,
                 XorBlock(left, RoundFunction(right, RoundKey(key, r))),
                 key, r + 1)

RECURSIVE Unfeistel(_, _, _, _)
Unfeistel(left, right, key, r) ==
    IF r < 1 THEN left \o right
    ELSE Unfeistel(XorBlock(right, RoundFunction(left, RoundKey(key, r))),
                   left, key, r - 1)

BlockEncrypt(key, x) ==
    Feistel(Take(x, HalfBlock), Drop(x, HalfBlock), key, 1)

BlockDecrypt(key, z) ==
    Unfeistel(Take(z, HalfBlock), Drop(z, HalfBlock), key, Rounds)

(***************************************************************************)
(* CBC with PKCS#7 padding, as the cipher objects of createCipheriv and      *)
(* createDecipheriv carry it: chain is the previous ciphertext block (the    *)
(* IV at first), buf the bytes not yet transformed.                          *)
(***************************************************************************)
NoCipher == [key |-> <<>>, chain |-> <<>>, buf |-> <<>>]

\* crypto.createCipheriv / createDecipheriv('aes-256-cbc', key, iv): the IV
\* length is checked first, then the key length.
CipherInitError(algorithm, key, iv) ==
    IF algorithm # "aes-256-cbc" THEN "ERR_CRYPTO_UNKNOWN_CIPHER"
    ELSE IF Len(iv) # BlockSize THEN "ERR_CRYPTO_INVALID_IV"
    ELSE IF Len(key) # KeySize THEN "ERR_CRYPTO_INVALID_KEYLEN"
    ELSE "none"

\* A cipher that starts its chain from a fixed block instead of the IV.
createCipheriv_FixedChain(key, iv) ==
    [key |-> key, chain |-> [i \in 1..BlockSize |-> 0], buf |-> <<>>]

createCipheriv(key, iv) == [key |-> key, chain |-> iv, buf |-> <<>>]

\* Encrypts the whole blocks at the head of data; returns the output and the
\* last ciphertext block.
RECURSIVE CbcEncryptBlocks(_, _, _)
CbcEncryptBlocks(key, chain, data) ==
    IF Len(data) < BlockSize THEN [out |-> <<>>, chain |-> chain]
    ELSE LET c == BlockEncrypt(key, XorBlock(Take(data, BlockSize), chain))
             rest == CbcEncryptBlocks(key, c, Drop(data, BlockSize))
         IN  [out |-> c \o rest.out, chain |-> rest.chain]

RECURSIVE CbcDecryptBlocks(_, _, _)
CbcDecryptBlocks(key, chain, data) ==
    IF Len(data) < BlockSize THEN [out |-> <<>>, chain |-> chain]
    ELSE LET c == Take(data, BlockSize)
             rest == CbcDecryptBlocks(key, c, Drop(data, BlockSize))
         IN  [out |-> XorBlock(BlockDecrypt(key, c), chain) \o rest.out,
              chain |-> rest.chain]

\* cipher.update(data): [out, cipher]; the bytes past the last whole block
\* stay in the cipher.
CipherUpdate(cipher, data) ==
    LET all == cipher.buf \o data
        whole == Len(all) - (Len(all) % BlockSize)
        r == CbcEncryptBlocks(cipher.key, cipher.chain, Take(all, whole))
    IN  [out |-> r.out,
         cipher |-> [cipher EXCEPT !.chain = r.chain, !.buf = Drop(all, whole)]]

\* cipher.final(): the remaining bytes padded to a whole block with n bytes of
\* value n, 1 <= n <= 16.
Pad(buf) ==
    LET n == BlockSize - (Len(buf) % BlockSize)
    IN  buf \o [i \in 1..n |-> n]

CipherFinal(cipher) ==
    CbcEncryptBlocks(cipher.key, cipher.chain, Pad(cipher.buf)).out

\* decipher.update(data): as CipherUpdate, but the last whole block is held
\* back for final() to strip the padding from.
DecipherUpdate(decipher, data) ==
    LET all == decipher.buf \o data
        hold == IF Len(all) = 0 THEN 0
                ELSE IF Len(all) % BlockSize = 0 THEN BlockSize
                ELSE Len(all) % BlockSize
        whole == Len(all) - hold
        r == CbcDecryptBlocks(decipher.key, decipher.chain, Take(all, whole))
    IN  [out |-> r.out,
         cipher |-> [decipher EXCEPT !.chain = r.chain, !.buf = Drop(all, whole)]]

\* The padding of a decrypted last block is valid when its last byte n is in
\* 1..16 and the last n bytes all equal n.
PadOk(block) ==
    LET n == block[Len(block)]
    IN  /\ n >= 1
        /\ n <= BlockSize
        /\ \A i \in (Len(block) - n + 1)..Len(block) : block[i] = n

\* decipher.final(): [err, out]
DecipherFinal(decipher) ==
    IF Len(decipher.buf) # BlockSize
    THEN [err |-> "ERR_OSSL_WRONG_FINAL_BLOCK_LENGTH", out |-> <<>>]
    ELSE LET block == CbcDecryptBlocks(decipher.key, decipher.chain,
                                       decipher.buf).out
         IN  IF PadOk(block)
             THEN [err |-> "none",
                   out |-> Take(block, BlockSize - block[BlockSize])]
             ELSE [err |-> "ERR_OSSL_BAD_DECRYPT", out |-> <<>>]

(***************************************************************************)
(* The state.                                                                *)
(***************************************************************************)
VARIABLES
    phase,           \* "unloaded" | "loaded": whether the module has been evaluated
    env,             \* process.env.ENCRYPTION_KEY of the running process
    ENCRYPTION_KEY,  \* line 3
    ALGORITHM,       \* line 4
    calls,           \* the calls of encrypt and decrypt, by slot
    wire             \* the encoded value last produced, with where it came from

vars == <<phase, env, ENCRYPTION_KEY, ALGORITHM, calls, wire>>

\* An environment value: unset (undefined), or a string.
Unset == [set |-> FALSE, val |-> <<>>]
EnvString(v) == [set |-> TRUE, val |-> v]

\* The literal as its text promises it: 32 characters.
FallbackLiteral32 ==
    <<121, 111, 117, 114, 45, 115, 101, 99, 114, 101, 116, 45, 107, 101, 121,
      45, 51, 50, 45, 99, 104, 97, 114, 115, 45, 108, 111, 110, 103, 33, 33,
      33>>

\* 'your-secret-key-32-chars-long!' (30 characters)
FallbackLiteral ==
    <<121, 111, 117, 114, 45, 115, 101, 99, 114, 101, 116, 45, 107, 101, 121,
      45, 51, 50, 45, 99, 104, 97, 114, 115, 45, 108, 111, 110, 103, 33>>

\* process.env.ENCRYPTION_KEY || '...': undefined and '' are both falsy
KeyFromEnv(e) == IF e.set /\ e.val # <<>> THEN e.val ELSE FallbackLiteral

\* Buffer.from(ENCRYPTION_KEY): the key string's UTF-8 bytes
KeyBytes == Utf8Encode(ENCRYPTION_KEY)

(***************************************************************************)
(* A call: its operation and argument, the line it is at, and its locals.    *)
(* A call that has returned or thrown keeps only its outcome.                *)
(***************************************************************************)
Idle ==
    [op |-> "none", text |-> <<>>, pc |-> "idle", iv |-> <<>>,
     cipher |-> NoCipher, encrypted |-> <<>>, textParts |-> <<>>,
     encryptedText |-> <<>>, decrypted |-> <<>>, ret |-> <<>>, err |-> "none"]

NewCall(op, text) ==
    [Idle EXCEPT !.op = op, !.text = text,
                 !.pc = IF op = "encrypt" THEN "L7" ELSE "L15"]

Return(c, value) ==
    [Idle EXCEPT !.op = c.op, !.text = c.text, !.pc = "returned", !.ret = value]

Throw(c, error) ==
    [Idle EXCEPT !.op = c.op, !.text = c.text, !.pc = "thrown", !.err = error]

Finished(c) == c.pc \in {"returned", "thrown"}

(***************************************************************************)
(* encrypt, lines 6-12, a line at a time.                                    *)
(***************************************************************************)
\* 7: const iv = crypto.randomBytes(16), rnd being the bytes drawn
EncryptL7(c, rnd) == [c EXCEPT !.iv = rnd, !.pc = "L8"]

\* 8: const cipher = crypto.createCipheriv(ALGORITHM, Buffer.from(ENCRYPTION_KEY), iv)
EncryptL8(c) ==
    LET error == CipherInitError(ALGORITHM, KeyBytes, c.iv)
    IN  IF error # "none" THEN Throw(c, error)
        ELSE [c EXCEPT !.cipher = createCipheriv(KeyBytes, c.iv), !.pc = "L9"]

\* 9: let encrypted = cipher.update(text)
EncryptL9(c) ==
    LET u == CipherUpdate(c.cipher, Utf8Encode(c.text))
    IN  [c EXCEPT !.encrypted = u.out, !.cipher = u.cipher, !.pc = "L10"]

\* Line 10 left out: the output of cipher.final() is never appended.
EncryptL10_NoFinal(c) == [c EXCEPT !.pc = "L11"]

\* 10: encrypted = Buffer.concat([encrypted, cipher.final()])
EncryptL10(c) ==
    [c EXCEPT !.encrypted = c.encrypted \o CipherFinal(c.cipher), !.pc = "L11"]

\* The IV kept in one module-level variable that every call writes and
\* reads, seen here as the IV of the call in slot 1.
EncryptL11_SharedIv(c) ==
    [op |-> c.op, text |-> c.text, pc |-> "returned", iv |-> <<>>,
     cipher |-> [key |-> <<>>, chain |-> <<>>, buf |-> <<>>],
     encrypted |-> <<>>, textParts |-> <<>>, encryptedText |-> <<>>,
     decrypted |-> <<>>,
     ret |-> HexEncode(calls[1].iv) \o Colon \o HexEncode(c.encrypted),
     err |-> "none"]

\* 11: return iv.toString('hex') + ':' + encrypted.toString('hex')
EncryptL11(c) ==
    Return(c, HexEncode(c.iv) \o Colon \o HexEncode(c.encrypted))

(***************************************************************************)
(* decrypt, lines 14-22, a line at a time.                                   *)
(***************************************************************************)
\* 15: const textParts = text.split(':')
DecryptL15(c) == [c EXCEPT !.textParts = Split(c.text), !.pc = "L16"]

\* 16: const iv = Buffer.from(textParts[0], 'hex')
DecryptL16(c) == [c EXCEPT !.iv = HexDecode(c.textParts[1]), !.pc = "L17"]

\* 17: const encryptedText = Buffer.from(textParts[1], 'hex'); textParts[1] is
\* undefined when the text holds no delimiter, and Buffer.from throws
DecryptL17(c) ==
    IF Len(c.textParts) < 2 THEN Throw(c, "ERR_INVALID_ARG_TYPE")
    ELSE [c EXCEPT !.encryptedText = HexDecode(c.textParts[2]), !.pc = "L18"]

\* 18: const decipher = crypto.createDecipheriv(ALGORITHM, Buffer.from(ENCRYPTION_KEY), iv)
DecryptL18(c) ==
    LET error == CipherInitError(ALGORITHM, KeyBytes, c.iv)
    IN  IF error # "none" THEN Throw(c, error)
        ELSE [c EXCEPT !.cipher = createCipheriv(KeyBytes, c.iv), !.pc = "L19"]

\* 19: let decrypted = decipher.update(encryptedText)
DecryptL19(c) ==
    LET u == DecipherUpdate(c.cipher, c.encryptedText)
    IN  [c EXCEPT !.decrypted = u.out, !.cipher = u.cipher, !.pc = "L20"]

\* Line 20 left out: the output of decipher.final() is never appended.
DecryptL20_NoFinal(c) == [c EXCEPT !.pc = "L21"]

\* 20: decrypted = Buffer.concat([decrypted, decipher.final()])
DecryptL20(c) ==
    LET f == DecipherFinal(c.cipher)
    IN  IF f.err # "none" THEN Throw(c, f.err)
        ELSE [c EXCEPT !.decrypted = c.decrypted \o f.out, !.pc = "L21"]

\* 21: return decrypted.toString()
DecryptL21(c) == Return(c, Utf8Decode(c.decrypted))

\* The next line of call c; rnd is what crypto.randomBytes would return.
StepCall(c, rnd) ==
    CASE c.pc = "L7" -> EncryptL7(c, rnd)
      [] c.pc = "L8" -> EncryptL8(c)
      [] c.pc = "L9" -> EncryptL9(c)
      [] c.pc = "L10" -> EncryptL10(c)
      [] c.pc = "L11" -> EncryptL11(c)
      [] c.pc = "L15" -> DecryptL15(c)
      [] c.pc = "L16" -> DecryptL16(c)
      [] c.pc = "L17" -> DecryptL17(c)
      [] c.pc = "L18" -> DecryptL18(c)
      [] c.pc = "L19" -> DecryptL19(c)
      [] c.pc = "L20" -> DecryptL20(c)
      [] c.pc = "L21" -> DecryptL21(c)

\* A call run from line c.pc to its return or throw without interruption, as
\* the synchronous functions run.
RECURSIVE RunToEnd(_, _)
RunToEnd(c, rnd) == IF Finished(c) THEN c ELSE RunToEnd(StepCall(c, rnd), rnd)

\* encrypt(text) with rnd drawn, and decrypt(text)
encrypt(text, rnd) == RunToEnd(NewCall("encrypt", text), rnd)
decrypt(text) == RunToEnd(NewCall("decrypt", text), <<>>)

(***************************************************************************)
(* The inputs the model draws from.                                          *)
(***************************************************************************)
\* Code units the generated plaintexts are made of: 'a', and the two halves
\* of the surrogate pair of U+1F600.
Alphabet == {97, 55357, 56832}

RECURSIVE StringsUpTo(_)
StringsUpTo(n) ==
    IF n = 0 THEN {<<>>}
    ELSE StringsUpTo(n - 1)
         \cup {Append(s, a) : s \in StringsUpTo(n - 1), a \in Alphabet}

\* 'hello world' (11 bytes)
HelloWorld == <<104, 101, 108, 108, 111, 32, 119, 111, 114, 108, 100>>
\* '0123456789abcdef' (16 bytes, a whole block)
OneBlock == <<48, 49, 50, 51, 52, 53, 54, 55, 56, 57, 97, 98, 99, 100, 101, 102>>
\* 'héllo wörld €' (13 characters, 17 bytes)
Multibyte == <<104, 233, 108, 108, 111, 32, 119, 246, 114, 108, 100, 32, 8364>>

Plaintexts == StringsUpTo(MaxPlainLen) \cup {HelloWorld, OneBlock, Multibyte}

\* Two values crypto.randomBytes(16) may return.
IV1 == <<0, 1, 2, 3, 4, 5, 6, 7, 8, 9, 10, 11, 12, 13, 14, 15>>
IV2 == <<237, 124, 255, 110, 228, 172, 9, 6, 112, 109, 37, 124, 159, 170, 90, 51>>
IVs == {IV1, IV2}

\* '0123456789abcdef0123456789abcdef' and 'fedcba9876543210fedcba9876543210':
\* 32 bytes each
Key1 ==
    <<48, 49, 50, 51, 52, 53, 54, 55, 56, 57, 97, 98, 99, 100, 101, 102,
      48, 49, 50, 51, 52, 53, 54, 55, 56, 57, 97, 98, 99, 100, 101, 102>>
Key2 ==
    <<102, 101, 100, 99, 98, 97, 57, 56, 55, 54, 53, 52, 51, 50, 49, 48,
      102, 101, 100, 99, 98, 97, 57, 56, 55, 54, 53, 52, 51, 50, 49, 48>>
\* '0123456789abcdef0123456789abcdeé': 32 characters, 33 bytes
WideKey ==
    <<48, 49, 50, 51, 52, 53, 54, 55, 56, 57, 97, 98, 99, 100, 101, 102,
      48, 49, 50, 51, 52, 53, 54, 55, 56, 57, 97, 98, 99, 100, 101, 233>>

\* The environments a process is started in: the variable unset, set to
\* either 32-byte key, or set to the 33-byte one.
EnvValues == {Unset, EnvString(Key1), EnvString(Key2), EnvString(WideKey)}

\* 'not-a-valid-format' and 'zz:zz'
NotAValidFormat ==
    <<110, 111, 116, 45, 97, 45, 118, 97, 108, 105, 100, 45, 102, 111, 114,
      109, 97, 116>>
ZzZz == <<122, 122, 58, 122, 122>>

FlipBit(bytes, i, b) == [bytes EXCEPT ![i] = Xor(@, Pow2(b))]

\* The texts decrypt is called with: fixed malformed ones, and the value on
\* the wire as it is or altered in transit (a third field added, characters
\* that are no hex digits after the ciphertext, after the IV and before it,
\* and one bit of the first or last ciphertext byte flipped).
Altered(msg) ==
    LET parts == Split(msg)
        ivHex == parts[1]
        ct == HexDecode(parts[2])
    IN  {msg,
         msg \o <<58, 48, 48>>,
         msg \o <<122, 122>>,
         ivHex \o <<122, 122>> \o Colon \o parts[2],
         <<122, 122>> \o msg}
        \cup {ivHex \o Colon \o HexEncode(FlipBit(ct, i, b)) :
                 i \in {1, Len(ct)}, b \in {0, 7}}

DecryptInputs ==
    {<<>>, NotAValidFormat, ZzZz}
    \cup (IF wire.msg = <<>> THEN {} ELSE Altered(wire.msg))

NoMessage == [msg |-> <<>>, plain |-> <<>>, key |-> <<>>, iv |-> <<>>]

(***************************************************************************)
(* The process: the module is evaluated once when the process starts, and    *)
(* encrypt and decrypt are called while it runs.  The encoded value outlives *)
(* the process that produced it.                                             *)
(***************************************************************************)
Slots == 1..MaxCalls

Init ==
    /\ phase = "unloaded"
    /\ env = Unset
    /\ ENCRYPTION_KEY = <<>>
    /\ ALGORITHM = ""
    /\ calls = [i \in Slots |-> Idle]
    /\ wire = NoMessage

\* Lines 3-4, with e the environment the process was started in.
Load(e) ==
    /\ phase = "unloaded"
    /\ phase' = "loaded"
    /\ env' = e
    /\ ENCRYPTION_KEY' = KeyFromEnv(e)
    /\ ALGORITHM' = "aes-256-cbc"
    /\ UNCHANGED <<calls, wire>>

\* The process ends.
Exit ==
    /\ phase = "loaded"
    /\ phase' = "unloaded"
    /\ env' = Unset
    /\ ENCRYPTION_KEY' = <<>>
    /\ ALGORITHM' = ""
    /\ calls' = [i \in Slots |-> Idle]
    /\ UNCHANGED wire

\* A caller calls encrypt(text) and, if it returns, sends the value.
Encrypt(text, rnd) ==
    /\ phase = "loaded"
    /\ calls[1].pc = "idle"
    /\ LET c == encrypt(text, rnd)
       IN  /\ calls' = [calls EXCEPT ![1] = c]
           /\ wire' = IF c.pc = "returned"
                      THEN [msg |-> c.ret, plain |-> text,
                            key |-> ENCRYPTION_KEY, iv |-> rnd]
                      ELSE wire
    /\ UNCHANGED <<phase, env, ENCRYPTION_KEY, ALGORITHM>>

\* A caller calls decrypt(text).
Decrypt(text) ==
    /\ phase = "loaded"
    /\ calls[1].pc = "idle"
    /\ calls' = [calls EXCEPT ![1] = decrypt(text)]
    /\ UNCHANGED <<phase, env, ENCRYPTION_KEY, ALGORITHM, wire>>

\* The caller has taken the outcome of call i.
Reap(i) ==
    /\ Finished(calls[i])
    /\ calls' = [calls EXCEPT ![i] = Idle]
    /\ UNCHANGED <<phase, env, ENCRYPTION_KEY, ALGORITHM, wire>>

Next ==
    \/ \E e \in EnvValues : Load(e)
    \/ Exit
    \/ \E text \in Plaintexts, rnd \in IVs : Encrypt(text, rnd)
    \/ \E text \in DecryptInputs : Decrypt(text)
    \/ Reap(1)

Spec == Init /\ [][Next]_vars

(***************************************************************************)
(* The same functions with their lines interleaved: several calls of one     *)
(* process in flight at once, each advancing a line at a time.               *)
(***************************************************************************)
ConcTexts == {HelloWorld}

\* decrypt is called with a value another call returned, or with 'zz:zz'.
ConcInputs ==
    {ZzZz} \cup {calls[j].ret :
                    j \in {k \in Slots : calls[k].op = "encrypt"
                                         /\ calls[k].pc = "returned"}}

Start(i, op, text) ==
    /\ phase = "loaded"
    /\ calls[i].pc = "idle"
    /\ \A j \in Slots : j < i => calls[j].pc # "idle"
    /\ calls' = [calls EXCEPT ![i] = NewCall(op, text)]
    /\ UNCHANGED <<phase, env, ENCRYPTION_KEY, ALGORITHM, wire>>

Step(i, rnd) ==
    /\ calls[i].pc \notin {"idle", "returned", "thrown"}
    /\ calls' = [calls EXCEPT ![i] = StepCall(calls[i], rnd)]
    /\ UNCHANGED <<phase, env, ENCRYPTION_KEY, ALGORITHM, wire>>

NextConc ==
    \/ Load(EnvString(Key1))
    \/ \E i \in Slots, text \in ConcTexts : Start(i, "encrypt", text)
    \/ \E i \in Slots, text \in ConcInputs : Start(i, "decrypt", text)
    \/ \E i \in Slots, rnd \in IVs : Step(i, rnd)
    \/ \E i \in Slots : Reap(i)

SpecConc == Init /\ [][NextConc]_vars

(***************************************************************************)
(* Notions the properties are stated with.                                   *)
(***************************************************************************)
\* The call whose outcome the caller of Spec holds.
Last == calls[1]

\* s with every unpaired surrogate replaced by U+FFFD; a string is well
\* formed when it has none.
RECURSIVE Scrub(_)
Scrub(s) ==
    IF s = <<>> THEN <<>>
    ELSE IF IsHighSurrogate(s[1]) /\ Len(s) >= 2 /\ IsLowSurrogate(s[2])
         THEN <<s[1], s[2]>> \o Scrub(Drop(s, 2))
    ELSE IF IsHighSurrogate(s[1]) \/ IsLowSurrogate(s[1])
         THEN <<Replacement>> \o Scrub(Tail(s))
    ELSE <<s[1]>> \o Scrub(Tail(s))

WellFormed(s) == Scrub(s) = s

LowerHex(s) == \A i \in 1..Len(s) : s[i] \in {HexDigits[k] : k \in 1..16}
HasNonHex(s) == \E i \in 1..Len(s) : Unhex(s[i]) < 0

\* a and b are byte strings of one length that differ in exactly one bit.
OneBitApart(a, b) ==
    /\ Len(a) = Len(b)
    /\ \E i \in 1..Len(a) :
          /\ Xor(a[i], b[i]) \in {Pow2(k) : k \in 0..7}
          /\ \A j \in 1..Len(a) : j # i => a[j] = b[j]

\* text is msg with one bit of its ciphertext field changed.
OneBitTampered(text, msg) ==
    LET p == Split(text)
        q == Split(msg)
    IN  /\ Len(p) = 2
        /\ p[1] = q[1]
        /\ p[2] = HexEncode(HexDecode(p[2]))
        /\ OneBitApart(HexDecode(p[2]), HexDecode(q[2]))

\* The last call was decrypt, of the value on the wire, under the key that
\* produced it.
DecryptedOwn ==
    /\ Last.op = "decrypt"
    /\ wire.msg # <<>>
    /\ Last.text = wire.msg
    /\ ENCRYPTION_KEY = wire.key

(***************************************************************************)
(* C1.  Round trip.                                                          *)
(***************************************************************************)
\* C1, as claimed: for every plaintext P and a valid key, decrypt(encrypt(P))
\* returns exactly P, whichever IV was drawn.
C1_RoundTripEveryString ==
    DecryptedOwn => (Last.pc = "returned" /\ Last.ret = wire.plain)

\* C1, amended: decrypt(encrypt(P)) returns P with every unpaired surrogate
\* replaced by U+FFFD, which is exactly P when P is well-formed UTF-16 (the
\* empty string and multibyte text included), whichever IV was drawn.
C1_RoundTripWellFormed ==
    DecryptedOwn =>
        /\ Last.pc = "returned"
        /\ Last.ret = Scrub(wire.plain)
        /\ WellFormed(wire.plain) => Last.ret = wire.plain

C1_Witness ==
    /\ DecryptedOwn
    /\ wire.plain = Multibyte
    /\ wire.iv = IV2
    /\ Last.pc = "returned"
    /\ Last.ret = Multibyte

(***************************************************************************)
(* C2.  Tamper detection.                                                    *)
(***************************************************************************)
\* C2: decrypt of a value of encrypt with one bit of its ciphertext field
\* changed throws; it never returns a plaintext.
C2_BitFlipRejected ==
    (/\ Last.op = "decrypt"
     /\ wire.msg # <<>>
     /\ ENCRYPTION_KEY = wire.key
     /\ OneBitTampered(Last.text, wire.msg))
    => Last.pc = "thrown"

(***************************************************************************)
(* C3, C4.  Malformed input.                                                 *)
(***************************************************************************)
\* C3: decrypt throws for every input that does not split on ':' into
\* exactly two fields (one field, or three and more).
C3_FieldCountRejected ==
    (Last.op = "decrypt" /\ Len(Split(Last.text)) # 2) => Last.pc = "thrown"

\* C4: decrypt throws for every two-field input one of whose fields holds a
\* character that is no hexadecimal digit, wherever it stands.
C4_NonHexRejected ==
    (/\ Last.op = "decrypt"
     /\ Len(Split(Last.text)) = 2
     /\ \E k \in 1..2 : HasNonHex(Split(Last.text)[k]))
    => Last.pc = "thrown"

(***************************************************************************)
(* C5.  Key mismatch.                                                        *)
(***************************************************************************)
\* C5: decrypt, under a valid key K2, of a value encrypt produced under
\* another valid key K1 throws; it never returns a plaintext.
C5_KeyMismatchRejected ==
    (/\ Last.op = "decrypt"
     /\ wire.msg # <<>>
     /\ Last.text = wire.msg
     /\ ENCRYPTION_KEY # wire.key
     /\ Len(KeyBytes) = KeySize)
    => Last.pc = "thrown"

(***************************************************************************)
(* C6.  No fallback key.                                                     *)
(***************************************************************************)
\* C6: with ENCRYPTION_KEY absent from the environment the module does not
\* load, and no call of encrypt or decrypt has the hardcoded literal as its
\* cipher key.
C6_NoFallbackKey ==
    /\ ~env.set => phase # "loaded"
    /\ \A i \in Slots :
          calls[i].op # "none" => ENCRYPTION_KEY # FallbackLiteral

(***************************************************************************)
(* C7.  Output format.                                                       *)
(***************************************************************************)
\* C7: every value encrypt returns is hex(IV) ':' hex(ciphertext): the IV
\* field is the 32 lowercase hex digits of the 16 bytes drawn, the ciphertext
\* field is a non-empty string of lowercase hex digits (a whole number of
\* blocks, one more than the plaintext's whole blocks, so also for the empty
\* plaintext), and ':' occurs exactly once.
C7_OutputFormat ==
    (Last.op = "encrypt" /\ Last.pc = "returned") =>
        LET parts == Split(Last.ret)
        IN  /\ Len(parts) = 2
            /\ Cardinality({i \in 1..Len(Last.ret) : Last.ret[i] = Colon[1]}) = 1
            /\ Len(parts[1]) = 2 * BlockSize
            /\ LowerHex(parts[1])
            /\ parts[1] = HexEncode(wire.iv)
            /\ Len(HexDecode(parts[1])) = BlockSize
            /\ Len(parts[2]) > 0
            /\ LowerHex(parts[2])
            /\ Len(parts[2]) =
                  2 * BlockSize * ((Len(Utf8Encode(Last.text)) \div BlockSize) + 1)
            /\ Last.ret = parts[1] \o Colon \o parts[2]

C7_Witness ==
    /\ Last.op = "encrypt"
    /\ Last.pc = "returned"
    /\ Last.text = <<>>
    /\ Len(Split(Last.ret)[2]) = 2 * BlockSize

(***************************************************************************)
(* C8.  IV freshness.                                                        *)
(***************************************************************************)
ReturnedEncrypts == {i \in Slots : calls[i].op = "encrypt" /\ calls[i].pc = "returned"}
IvField(i) == Split(calls[i].ret)[1]
CiphertextField(i) == Split(calls[i].ret)[2]

\* C8, as claimed: no two encrypt calls under one key use the same IV, so
\* two calls with the same plaintext never return the same value.
C8_IvNeverReused ==
    \A i, j \in ReturnedEncrypts :
        i # j => /\ IvField(i) # IvField(j)
                 /\ calls[i].text = calls[j].text => calls[i].ret # calls[j].ret

\* C8, amended: each call draws its IV on its own and nothing keeps two
\* calls from drawing the same one; two calls with the same plaintext and key
\* return the same value exactly when they drew the same IV, and with
\* different IVs their ciphertext fields differ too.
C8_SameOutputIffSameIv ==
    \A i, j \in ReturnedEncrypts :
        (i # j /\ calls[i].text = calls[j].text) =>
            /\ (calls[i].ret = calls[j].ret) <=> (IvField(i) = IvField(j))
            /\ IvField(i) # IvField(j) => CiphertextField(i) # CiphertextField(j)

C8_Witness ==
    \E i, j \in ReturnedEncrypts :
        /\ i # j
        /\ calls[i].text = calls[j].text
        /\ IvField(i) = HexEncode(IV1)
        /\ IvField(j) = HexEncode(IV2)
        /\ CiphertextField(i) # CiphertextField(j)

(***************************************************************************)
(* C9.  No shared state between calls.                                       *)
(***************************************************************************)
\* C9: however the lines of concurrent calls interleave, the key and the
\* algorithm stay as loaded, and every finished call has the outcome that
\* the same call, with its own input and (for encrypt) its own IV, has when
\* run alone.
C9_CallsIndependent ==
    /\ phase = "loaded" =>
          (ENCRYPTION_KEY = KeyFromEnv(env) /\ ALGORITHM = "aes-256-cbc")
    /\ \A i \in Slots :
          Finished(calls[i]) =>
              IF calls[i].op = "decrypt"
              THEN calls[i] = decrypt(calls[i].text)
              ELSE \E rnd \in IVs :
                      /\ calls[i] = encrypt(calls[i].text, rnd)
                      /\ calls[i].pc = "returned" => IvField(i) = HexEncode(rnd)

C9_Witness ==
    \E i, j \in Slots :
        /\ calls[i].op = "encrypt"
        /\ calls[i].pc = "returned"
        /\ IvField(i) = HexEncode(IV2)
        /\ calls[j].op = "decrypt"
        /\ calls[j].pc = "L19"
        /\ calls[j].iv = IV1

(***************************************************************************)
(* C10.  Key length.                                                         *)
(***************************************************************************)
\* C10: with a key that is not 32 bytes long every call of encrypt and of
\* decrypt throws, whatever its input; the key in use without ENCRYPTION_KEY
\* is the 30-byte literal, so then every call throws.
C10_KeyLengthGate ==
    /\ (phase = "loaded" /\ ~env.set) => Len(KeyBytes) = 30
    /\ \A i \in Slots :
          (Finished(calls[i]) /\ Len(KeyBytes) # KeySize) =>
              (calls[i].pc = "thrown" /\ calls[i].ret = <<>>)

C10_Witness ==
    /\ ~env.set
    /\ Last.op = "encrypt"
    /\ Last.pc = "thrown"
    /\ Last.err = "ERR_CRYPTO_INVALID_KEYLEN"

=============================================================================
